---- MODULE Spec2Model ----
(***************************************************************************)
(* Query execution of the Okta connector tables okta_factor,               *)
(* okta_app_assigned_user, okta_password_policy, okta_mfa_policy and       *)
(* okta_signon_policy: one query per behaviour, executed step by step      *)
(* (entry, first page, item loop, paging, enrichment, return).             *)
(*                                                                         *)
(* Strings that serve as identifiers are tuples of naturals (the empty     *)
(* string is the empty tuple); error messages are tuples of words, so that *)
(* strings.Contains and strings.ToLower are computed on them.              *)
(***************************************************************************)
EXTENDS Integers, Sequences, FiniteSets, TLC

\* ---------------------------------------------------------------- bounds
MaxLimit == 2
MaxParents == 3
MaxPages == 2
MaxPageLen == 2
\* concurrent callers of the row sink
MaxCallers == 3

\* ------------------------------------------------------------- constants
\* QueryContext.Limit == nil: no row limit
Unlimited == -1
\* the empty string of an identifier, and a nil *string
NoId == << >>
NilPtr == << 0 >>
NoErr == [status |-> 0, msg |-> << >>]
NoRow == [kind |-> "none"]
NilInstance == "nil"
Undeclared == "Undeclared"

\* ------------------------------------------------------------ error text
\* strings.ToLower, word by word
ToLowerWord(w) ==
    CASE w = "Not" -> "not"
      [] w = "Found" -> "found"
      [] w = "Invalid" -> "invalid"
      [] w = "Factor" -> "factor"
      [] w = "Internal" -> "internal"
      [] w = "Server" -> "server"
      [] w = "Error" -> "error"
      [] OTHER -> w

ToLower(msg) == [i \in 1..Len(msg) |-> ToLowerWord(msg[i])]

\* strings.Contains(msg, pat)
Contains(msg, pat) ==
    \E i \in 0..(Len(msg) - Len(pat)) :
        \A j \in 1..Len(pat) : msg[i + j] = pat[j]

\* the failures the remote API answers with
Errors ==
    { [status |-> 404, msg |-> <<"Not", "found">>],
      [status |-> 404, msg |-> <<"404", "Not", "Found">>],
      [status |-> 400, msg |-> <<"Invalid", "Factor">>],
      [status |-> 500, msg |-> <<"Internal", "Server", "Error">>] }

\* isNotFoundError(patterns): the predicate a GetConfig declares
isNotFoundError(patterns, err) ==
    \/ err.status = 404
    \/ \E p \in patterns : Contains(err.msg, p)

\* ----------------------------------------------------------- union types
FactorTypes ==
    { "*UserFactorCall", "*UserFactorEmail", "*UserFactorPush", "*UserFactorSMS",
      "*UserFactorSecurityQuestion", "*UserFactorToken", "*UserFactorTokenHOTP",
      "*UserFactorTokenHardware", "*UserFactorTokenSoftwareTOTP", "*UserFactorU2F",
      "*UserFactorWeb", "*UserFactorWebAuthn", "*UserFactor", "UserFactor" }

ApplicationTypes ==
    { "*AutoLoginApplication", "*BasicAuthApplication", "*BookmarkApplication",
      "*BrowserPluginApplication", "*OpenIdConnectApplication", "*SamlApplication",
      "*Saml11Application", "*SecurePasswordStoreApplication",
      "*WsFederationApplication" }

\* the variant tags of the policy family
PolicyTypes ==
    { "*PasswordPolicy", "*AccessPolicy", "*AuthenticatorEnrollmentPolicy",
      "*IdpDiscoveryPolicy", "*OktaSignOnPolicy" }

\* the zero value OktaFactor{}
EmptyOktaFactor == [Id |-> NoId, FactorType |-> "", Profile |-> "nil"]

getFactorDetails(factor) ==
    IF factor.type \in FactorTypes
    THEN [Id |-> factor.id, FactorType |-> factor.type, Profile |-> "profile"]
    ELSE EmptyOktaFactor

\* ------------------------------------------------------- backing dataset
\* The remote organisation: a fixed dataset per value of ds; the kinds of the
\* items cycle so that every kind occurs at every position for some ds.
FactorCycle == << "*UserFactorSMS", Undeclared, "UserFactor", NilInstance >>
PolicyCycle ==
    << "*PasswordPolicy", "*AuthenticatorEnrollmentPolicy", "*AccessPolicy", Undeclared,
       "*IdpDiscoveryPolicy", NilInstance, "*OktaSignOnPolicy" >>
AppCycle ==
    << "*SamlApplication", "*BookmarkApplication", Undeclared,
       "*OpenIdConnectApplication", NilInstance >>
DataSets == 0 .. 6

Pick(cycle, n) == cycle[(n % Len(cycle)) + 1]
PageLen(d, k, g) == (d + k + g) % (MaxPageLen + 1)

\* page g of the factors of user k
FactorPage(d, k, g) ==
    [i \in 1..PageLen(d, k[1], g) |->
        [type |-> Pick(FactorCycle, d + k[1] + g + i), id |-> <<k[1], g, i>>]]

\* the users assigned to application k that fall on page g, with the profile
\* fields the search covers
AppUsers(d, k, g) ==
    [i \in 1..PageLen(d, k[1], g) |->
        [id |-> <<k[1], g, i>>,
         user_name |-> Pick(<< <<"alice">>, <<"bob">> >>, d + i),
         first_name |-> Pick(<< <<"alice">>, <<"carol">> >>, g + i),
         email |-> Pick(<< <<"a@b.c">>, <<"b@b.c">> >>, i)]]

\* the q parameter of the API: a starts-with search over the profile fields
StartsWith(field, qq) == Len(qq) <= Len(field) /\ SubSeq(field, 1, Len(qq)) = qq
Matches(u, qq) ==
    \/ qq = NoId
    \/ StartsWith(u.user_name, qq)
    \/ StartsWith(u.first_name, qq)
    \/ StartsWith(u.email, qq)

\* page g of the users assigned to application k, as served for search qq
AppUserPage(d, k, g, qq) ==
    LET all == AppUsers(d, k, g)
        IsMatch(u) == Matches(u, qq)
    IN SelectSeq(all, IsMatch)

\* page g of ListPolicies: a single union value
PolicyPage(d, g) ==
    << [type |-> Pick(PolicyCycle, d + g), id |-> <<g>>] >>

\* page g of the rules, and of the mappings, of policy p
RulePage(d, p, g) ==
    [i \in 1..PageLen(d, p[1], g) |-> [type |-> "rule", id |-> <<p[1], g, i>>]]
MappingPage(d, p, g) ==
    [i \in 1..PageLen(d, p[1] + 1, g) |-> [id |-> <<p[1], g, i>>]]

\* the rows of the parent lists
UserItem(k) == [type |-> "*User", id |-> <<k>>, login |-> <<k, 0>>]
AppItem(d, k) ==
    [type |-> Pick(AppCycle, d + k),
     id |-> IF (d + k) % 4 = 3 THEN NilPtr ELSE <<k>>]

\* the parent list of okta_app_assigned_user that hands every application on
getOrListOktaApplications_ListOnly(d, qs) == [k \in 1..MaxParents |-> AppItem(d, k)]

\* getOrListOktaApplications: with an exact-match app_id the parent rows are
\* those whose key equals it, otherwise every application
getOrListOktaApplications(d, qs) ==
    LET all == [k \in 1..MaxParents |-> AppItem(d, k)]
        IsWanted(app) == app.id = qs.app_id.str
    IN IF qs.app_id.str # NoId THEN SelectSeq(all, IsWanted) ELSE all


\* ------------------------------------------------------------ the query
Tables ==
    { "okta_factor", "okta_app_assigned_user", "okta_password_policy",
      "okta_mfa_policy", "okta_signon_policy" }
HasParent(t) == t \in {"okta_factor", "okta_app_assigned_user"}
HasGet(t) == t \in {"okta_factor", "okta_app_assigned_user"}

\* a qualifier of the query: absent, one string, or a list of values (IN)
Absent == [present |-> FALSE, str |-> NoId, list |-> {}]
Eq(v) == [present |-> TRUE, str |-> v, list |-> {}]
In(vs) == [present |-> TRUE, str |-> NoId, list |-> vs]
\* d.EqualsQualString(name) and d.EqualsQuals[name].GetStringValue()
EqualsQualString(qual) == qual.str

NoQuals ==
    [user_id |-> Absent, id |-> Absent, app_id |-> Absent,
     user_name |-> Absent, first_name |-> Absent, email |-> Absent]

FactorListQuals ==
    { [NoQuals EXCEPT !.user_id = u] :
        u \in {Absent, Eq(NoId), In({<<1>>, <<MaxParents>>})}
              \cup {Eq(<<k>>) : k \in 1..MaxParents} }
FactorGetQuals ==
    { [NoQuals EXCEPT !.user_id = u, !.id = f] :
        u \in {Eq(NoId), Eq(<<1>>)}, f \in {Eq(NoId), Eq(<<1, 1, 1>>)} }
AppListQuals ==
    { [NoQuals EXCEPT !.app_id = a, !.user_name = n, !.first_name = f, !.email = e] :
        a \in {Absent, Eq(<<2>>)},
        n \in {Absent, Eq(<<"alice">>), In({<<"alice">>, <<"bob">>})},
        f \in {Absent, Eq(<<"carol">>)},
        e \in {Absent, Eq(<<"a@b.c">>)} }
AppGetQuals ==
    { [NoQuals EXCEPT !.app_id = a, !.id = u] :
        a \in {Eq(NoId), Eq(<<1>>)}, u \in {Eq(NoId), Eq(<<1, 1, 1>>)} }

PlainColumns == {{"id", "name"}}
PolicyColumns ==
    { {"id", "name"}, {"id", "rules"}, {"id", "resource_mapping"},
      {"id", "name", "rules", "resource_mapping"} }

Limits == (0 .. MaxLimit) \cup {Unlimited}

\* the rules hydrate bound to the name column as well
ColumnHydrate_RulesOnName(t, col) ==
    IF t \in {"okta_password_policy", "okta_mfa_policy", "okta_signon_policy"}
    THEN CASE col = "name" -> "getOktaPolicyRules"
           [] col = "rules" -> "getOktaPolicyRules"
           [] col = "resource_mapping" -> "getOktaPolicyAssociatedResources"
           [] OTHER -> "none"
    ELSE "none"

\* the hydrate function bound to a column of a policy table
ColumnHydrate(t, col) ==
    IF t \in {"okta_password_policy", "okta_mfa_policy", "okta_signon_policy"}
    THEN CASE col = "rules" -> "getOktaPolicyRules"
           [] col = "resource_mapping" -> "getOktaPolicyAssociatedResources"
           [] OTHER -> "none"
    ELSE "none"

\* ----------------------------------------------------------------- state
VARIABLES
    table, op, limit, quals, columns, ds, parents, run, prev,
    budget, pc, pidx, item, key, q, maxLimit,
    page, idx, hasNext, pageNo,
    cur, after, hdone, hkey, hacc, hHasNext, hPageNo,
    rows, calls, result

query == <<table, op, limit, quals, columns, ds, parents, run, prev>>
listv == <<pidx, item, key, q, maxLimit, page, idx, hasNext, pageNo>>
hydv == <<cur, after, hdone, hkey, hacc, hHasNext, hPageNo>>
vars == <<query, budget, pc, listv, hydv, rows, calls, result>>

Running == [done |-> FALSE, err |-> NoErr, row |-> NoRow]
Finished(err, row) == [done |-> TRUE, err |-> err, row |-> row]

\* d.RowsRemaining(ctx)
RowsRemaining == IF limit = Unlimited THEN Unlimited ELSE budget

\* a sink that takes every row, whatever the budget
Accepts_Always == TRUE

\* RowSink: tryConsume succeeds while the budget is positive or unbounded
Accepts == limit = Unlimited \/ budget > 0
\* a tryConsume that leaves the budget as it was
Consumed_Kept == budget
\* RowBudget: the budget after a successful tryConsume
Consumed == IF limit = Unlimited THEN budget ELSE budget - 1

\* the endpoint and the key of the page request the query is about to issue
CurrentApi ==
    CASE pc \in {"rules_first", "rules_paging"} -> "ListPolicyRules"
      [] pc \in {"mappings_first", "mappings_paging"} -> "ListPolicyMappings"
      [] table = "okta_factor" -> "ListFactors"
      [] table = "okta_app_assigned_user" -> "ListApplicationUsers"
      [] OTHER -> "ListPolicies"
CurrentKey ==
    IF pc \in {"rules_first", "rules_paging", "mappings_first", "mappings_paging"}
    THEN hkey ELSE key

\* the answer of the remote API to a page request: any failure, or a page with
\* or without a successor; a request an earlier run of the query already made
\* against the unchanged organisation is answered as it was then
FetchOutcomes(g) ==
    LET same(c, cursor) ==
            c.api = CurrentApi /\ c.key = CurrentKey /\ c.cursor = cursor
    IN IF run = 2 /\ \E i \in DOMAIN prev.calls : same(prev.calls[i], g)
       THEN { [err |-> NoErr,
               next |-> \E i \in DOMAIN prev.calls : same(prev.calls[i], g + 1)] }
       ELSE { [err |-> e, next |-> FALSE] : e \in Errors }
            \cup { [err |-> NoErr, next |-> n] :
                     n \in (IF g < MaxPages THEN BOOLEAN ELSE {FALSE}) }

\* a request as the remote API saw it, with the budget left when it was issued
Call(api, k, g, qq, lim, err) ==
    [api |-> api, key |-> k, cursor |-> g, q |-> qq, lim |-> lim,
     rem |-> RowsRemaining, err |-> err]

Init ==
    /\ table \in Tables
    /\ op \in (IF HasGet(table) THEN {"list", "get"} ELSE {"list"})
    /\ limit \in (IF op = "get" THEN {Unlimited} ELSE Limits)
    /\ ds \in DataSets
    /\ quals \in (CASE table = "okta_factor" /\ op = "list" -> FactorListQuals
                    [] table = "okta_factor" /\ op = "get" -> FactorGetQuals
                    [] table = "okta_app_assigned_user" /\ op = "list" -> AppListQuals
                    [] table = "okta_app_assigned_user" /\ op = "get" -> AppGetQuals
                    [] OTHER -> {NoQuals})
    /\ columns \in (IF HasParent(table) THEN PlainColumns ELSE PolicyColumns)
    /\ parents = (CASE op = "list" /\ table = "okta_factor" ->
                         [k \in 1..MaxParents |-> UserItem(k)]
                    [] op = "list" /\ table = "okta_app_assigned_user" ->
                         getOrListOktaApplications(ds, quals)
                    [] OTHER -> << >>)
    /\ run = 1
    /\ prev = [rows |-> << >>, calls |-> << >>]
    /\ budget = limit
    /\ pc = (IF op = "get" THEN "get" ELSE IF HasParent(table) THEN "parent" ELSE "list")
    /\ pidx = 0
    /\ item = NoRow
    /\ key = NoId
    /\ q = NoId
    /\ maxLimit = 0
    /\ page = << >>
    /\ idx = 1
    /\ hasNext = FALSE
    /\ pageNo = 0
    /\ cur = NoRow
    /\ after = "next"
    /\ hdone = {}
    /\ hkey = NoId
    /\ hacc = << >>
    /\ hHasNext = FALSE
    /\ hPageNo = 0
    /\ rows = << >>
    /\ calls = << >>
    /\ result = Running

\* ------------------------------------------------- the engine (SDK side)
\* The list function returned (nil, err): an error ends the query, otherwise the
\* parent iteration goes on (or the query ends, for a table without parent).
ListReturn(err) ==
    IF err # NoErr
    THEN pc' = "done" /\ result' = Finished(err, NoRow)
    ELSE IF HasParent(table)
         THEN pc' = "parent" /\ UNCHANGED result
         ELSE pc' = "done" /\ result' = Finished(NoErr, NoRow)

\* the hydrate functions the requested columns need
Required == { ColumnHydrate(table, c) : c \in columns } \ {"none"}

\* the value of a hydrated column: not populated, nil, or a list
Unset == [set |-> FALSE, nil |-> TRUE, items |-> << >>]
NilValue == [set |-> TRUE, nil |-> TRUE, items |-> << >>]
Value(s) == [set |-> TRUE, nil |-> FALSE, items |-> s]
\* a row on its way to the caller: the streamed item and its hydrated columns
Row(it) == [item |-> it, rules |-> Unset, resource_mapping |-> Unset]

\* d.StreamListItem(ctx, row) followed by the caller's
\* "if d.RowsRemaining(ctx) == 0 { return nil, nil }"
StreamListItem(row) ==
    IF Accepts
    THEN /\ budget' = Consumed
         /\ LET stop == limit # Unlimited /\ Consumed = 0
            IN IF Required = {}
               THEN /\ rows' = Append(rows, Row(row))
                    /\ UNCHANGED <<cur, after, hdone>>
                    /\ IF stop THEN ListReturn(NoErr)
                       ELSE pc' = "loop" /\ UNCHANGED result
               ELSE /\ cur' = Row(row)
                    /\ after' = IF stop THEN "return" ELSE "next"
                    /\ hdone' = {}
                    /\ pc' = "hydrate"
                    /\ UNCHANGED <<rows, result>>
    ELSE /\ UNCHANGED <<budget, rows, cur, after, hdone>>
         /\ IF RowsRemaining = 0 THEN ListReturn(NoErr)
            ELSE pc' = "loop" /\ UNCHANGED result

\* ParentIteration: the next parent row is handed to the list function; the
\* budget is observed after each parent row.
ParentIteration ==
    /\ pc = "parent"
    /\ IF pidx < Len(parents) /\ (pidx = 0 \/ RowsRemaining # 0)
       THEN /\ pidx' = pidx + 1
            /\ item' = parents[pidx + 1]
            /\ pc' = "list"
            /\ UNCHANGED result
       ELSE /\ pc' = "done"
            /\ result' = Finished(NoErr, NoRow)
            /\ UNCHANGED <<pidx, item>>
    /\ UNCHANGED <<query, budget, key, q, maxLimit, page, idx, hasNext, pageNo,
                   hydv, rows, calls>>

\* ------------------------------------------------------- listOktaFactors
\* the qualifier is not consulted: every parent is fetched
listOktaFactors_skip_NoPruning(qual, userId) == FALSE

\* a pruning that consults the single string value only, never the list
listOktaFactors_skip_StringOnly(qual, userId) ==
    /\ qual.present
    /\ EqualsQualString(qual) # NoId
    /\ EqualsQualString(qual) # userId

\* lines 88-98: the parent is skipped when the user_id qualifier excludes it
listOktaFactors_skip(qual, userId) ==
    /\ qual.present
    /\ IF EqualsQualString(qual) # NoId
       THEN EqualsQualString(qual) # NoId /\ EqualsQualString(qual) # userId
       ELSE Cardinality(qual.list) > 0 /\ userId \notin qual.list

\* lines 107-113: the error of the first page
listOktaFactors_firstError(err) ==
    IF Contains(err.msg, <<"Not", "found">>) THEN NoErr ELSE err

\* lines 135-138: the error of a continuation page
listOktaFactors_nextError(err) == err

listOktaFactors_Entry ==
    /\ pc = "list" /\ table = "okta_factor"
    /\ LET userId == IF item # NoRow THEN item.id ELSE NoId
       IN IF listOktaFactors_skip(quals.user_id, userId) \/ userId = NoId
          THEN ListReturn(NoErr) /\ UNCHANGED key
          ELSE pc' = "first" /\ key' = userId /\ UNCHANGED result
    /\ UNCHANGED <<query, budget, pidx, item, q, maxLimit, page, idx, hasNext,
                   pageNo, hydv, rows, calls>>

listOktaFactors_ListFactors ==
    /\ pc = "first" /\ table = "okta_factor"
    /\ \E o \in FetchOutcomes(1) :
        /\ calls' = Append(calls, Call("ListFactors", key, 1, NoId, 0, o.err))
        /\ IF o.err # NoErr
           THEN /\ ListReturn(listOktaFactors_firstError(o.err))
                /\ UNCHANGED <<page, idx, hasNext, pageNo>>
           ELSE /\ page' = FactorPage(ds, key, 1)
                /\ idx' = 1
                /\ hasNext' = o.next
                /\ pageNo' = 1
                /\ pc' = "loop"
                /\ UNCHANGED result
    /\ UNCHANGED <<query, budget, pidx, item, key, q, maxLimit, hydv, rows>>

listOktaFactors_Item ==
    /\ pc = "loop" /\ table = "okta_factor"
    /\ idx <= Len(page)
    /\ idx' = idx + 1
    /\ LET factor == page[idx]
       IN IF factor.type # NilInstance
          THEN StreamListItem([kind |-> "UserFactorInfo", UserId |-> key,
                               UserName |-> item.login,
                               Factor |-> getFactorDetails(factor),
                               page |-> pageNo])
          ELSE UNCHANGED <<budget, pc, cur, after, hdone, rows, result>>
    /\ UNCHANGED <<query, pidx, item, key, q, maxLimit, page, hasNext, pageNo,
                   hkey, hacc, hHasNext, hPageNo, calls>>

listOktaFactors_Paging ==
    /\ pc = "loop" /\ table = "okta_factor"
    /\ idx > Len(page)
    /\ IF hasNext
       THEN \E o \in FetchOutcomes(pageNo + 1) :
            /\ calls' = Append(calls, Call("ListFactors", key, pageNo + 1, NoId, 0, o.err))
            /\ IF o.err # NoErr
               THEN /\ ListReturn(listOktaFactors_nextError(o.err))
                    /\ UNCHANGED <<page, idx, hasNext, pageNo>>
               ELSE /\ page' = FactorPage(ds, key, pageNo + 1)
                    /\ idx' = 1
                    /\ hasNext' = o.next
                    /\ pageNo' = pageNo + 1
                    /\ UNCHANGED <<pc, result>>
       ELSE /\ ListReturn(NoErr)
            /\ UNCHANGED <<page, idx, hasNext, pageNo, calls>>
    /\ UNCHANGED <<query, budget, pidx, item, key, q, maxLimit, hydv, rows>>

\* ------------------------------------------ listApplicationAssignedUsers
\* line 135: the page size the API allows
DefaultMaxLimit == 500

\* an id extraction that yields the id of the first application for every row
listApplicationAssignedUsers_appId_First(it) == <<1>>

\* lines 76-121: the application id out of the parent row
listApplicationAssignedUsers_appId(it) ==
    IF it # NoRow /\ it.type \in ApplicationTypes /\ it.id # NilPtr
    THEN it.id
    ELSE NoId

\* a search string that prefers email to first_name and first_name to user_name
listApplicationAssignedUsers_q_EmailFirst(qs) ==
    IF EqualsQualString(qs.email) # NoId THEN EqualsQualString(qs.email)
    ELSE IF EqualsQualString(qs.first_name) # NoId THEN EqualsQualString(qs.first_name)
    ELSE IF EqualsQualString(qs.user_name) # NoId THEN EqualsQualString(qs.user_name)
    ELSE NoId

\* a search string taken from the values of an IN list as well
listApplicationAssignedUsers_q_PushIn(qs) ==
    IF EqualsQualString(qs.user_name) # NoId THEN EqualsQualString(qs.user_name)
    ELSE IF qs.user_name.list # {} THEN CHOOSE v \in qs.user_name.list : TRUE
    ELSE IF EqualsQualString(qs.first_name) # NoId THEN EqualsQualString(qs.first_name)
    ELSE IF EqualsQualString(qs.email) # NoId THEN EqualsQualString(qs.email)
    ELSE NoId

\* lines 137-144: the search string pushed down to the API
listApplicationAssignedUsers_q(qs) ==
    IF EqualsQualString(qs.user_name) # NoId THEN EqualsQualString(qs.user_name)
    ELSE IF EqualsQualString(qs.first_name) # NoId THEN EqualsQualString(qs.first_name)
    ELSE IF EqualsQualString(qs.email) # NoId THEN EqualsQualString(qs.email)
    ELSE NoId

\* lines 148-153: the page size requested
listApplicationAssignedUsers_maxLimit(lim) ==
    IF lim # Unlimited /\ lim < DefaultMaxLimit THEN lim ELSE DefaultMaxLimit

\* the error of a page of assigned users dropped instead of returned
listApplicationAssignedUsers_pageError_Swallowed(err) == NoErr

\* lines 161-164 and 179-182: the error of a page
listApplicationAssignedUsers_pageError(err) == err

listApplicationAssignedUsers_Entry ==
    /\ pc = "list" /\ table = "okta_app_assigned_user"
    /\ LET appId == listApplicationAssignedUsers_appId(item)
       IN IF appId = NoId
          THEN ListReturn(NoErr) /\ UNCHANGED <<key, q, maxLimit>>
          ELSE /\ pc' = "first"
               /\ key' = appId
               /\ q' = listApplicationAssignedUsers_q(quals)
               /\ maxLimit' = listApplicationAssignedUsers_maxLimit(limit)
               /\ UNCHANGED result
    /\ UNCHANGED <<query, budget, pidx, item, page, idx, hasNext, pageNo, hydv,
                   rows, calls>>

listApplicationAssignedUsers_ListApplicationUsers ==
    /\ pc = "first" /\ table = "okta_app_assigned_user"
    /\ \E o \in FetchOutcomes(1) :
        /\ calls' = Append(calls, Call("ListApplicationUsers", key, 1, q, maxLimit, o.err))
        /\ IF o.err # NoErr
           THEN /\ ListReturn(listApplicationAssignedUsers_pageError(o.err))
                /\ UNCHANGED <<page, idx, hasNext, pageNo>>
           ELSE /\ page' = AppUserPage(ds, key, 1, q)
                /\ idx' = 1
                /\ hasNext' = o.next
                /\ pageNo' = 1
                /\ pc' = "loop"
                /\ UNCHANGED result
    /\ UNCHANGED <<query, budget, pidx, item, key, q, maxLimit, hydv, rows>>

\* the loop over a page that passes over its items without streaming them
listApplicationAssignedUsers_Item_Dropped ==
    /\ pc = "loop" /\ table = "okta_app_assigned_user"
    /\ idx <= Len(page)
    /\ idx' = idx + 1
    /\ UNCHANGED <<query, budget, pc, pidx, item, key, q, maxLimit, page, hasNext,
                   pageNo, hydv, rows, calls, result>>

listApplicationAssignedUsers_Item ==
    /\ pc = "loop" /\ table = "okta_app_assigned_user"
    /\ idx <= Len(page)
    /\ idx' = idx + 1
    /\ StreamListItem([kind |-> "AppUserInfo", AppId |-> key, Id |-> page[idx].id,
                       page |-> pageNo])
    /\ UNCHANGED <<query, pidx, item, key, q, maxLimit, page, hasNext, pageNo,
                   hkey, hacc, hHasNext, hPageNo, calls>>

listApplicationAssignedUsers_Paging ==
    /\ pc = "loop" /\ table = "okta_app_assigned_user"
    /\ idx > Len(page)
    /\ IF hasNext
       THEN \E o \in FetchOutcomes(pageNo + 1) :
            /\ calls' = Append(calls, Call("ListApplicationUsers", key, pageNo + 1,
                                           q, maxLimit, o.err))
            /\ IF o.err # NoErr
               THEN /\ ListReturn(listApplicationAssignedUsers_pageError(o.err))
                    /\ UNCHANGED <<page, idx, hasNext, pageNo>>
               ELSE /\ page' = AppUserPage(ds, key, pageNo + 1, q)
                    /\ idx' = 1
                    /\ hasNext' = o.next
                    /\ pageNo' = pageNo + 1
                    /\ UNCHANGED <<pc, result>>
       ELSE /\ ListReturn(NoErr)
            /\ UNCHANGED <<page, idx, hasNext, pageNo, calls>>
    /\ UNCHANGED <<query, budget, pidx, item, key, q, maxLimit, hydv, rows>>

\* ---------------------------------------------------------- listPolicies
\* getStringPtrVal
getStringPtrVal(s) == IF s # NilPtr THEN s ELSE NoId

\* lines 60-66: the policy type requested for the table
listPolicies_policyType(t) ==
    CASE t = "okta_password_policy" -> <<"PASSWORD">>
      [] t = "okta_mfa_policy" -> <<"MFA_ENROLL">>
      [] OTHER -> NoId

\* a conversion that resolves nothing once the query has run before
convertPolicyRespToStruct_FirstRunOnly(resp) ==
    IF run = 2 \/ resp = NoRow \/ resp.type = NilInstance
    THEN NoRow
    ELSE IF resp.type \in {"*PasswordPolicy", "*AuthenticatorEnrollmentPolicy"}
         THEN [kind |-> "*PolicyStructure", Id |-> getStringPtrVal(resp.id),
               Type |-> resp.type]
         ELSE NoRow

\* convertPolicyRespToStruct: nil for a nil response, a nil instance and every
\* type but the two of the switch
convertPolicyRespToStruct(resp) ==
    IF resp = NoRow \/ resp.type = NilInstance
    THEN NoRow
    ELSE IF resp.type \in {"*PasswordPolicy", "*AuthenticatorEnrollmentPolicy"}
         THEN [kind |-> "*PolicyStructure", Id |-> getStringPtrVal(resp.id),
               Type |-> resp.type]
         ELSE NoRow

\* the error of a page dropped instead of returned
listPolicies_pageError_Swallowed(err) == NoErr

\* lines 69-72 and 92-95: the error of a page
listPolicies_pageError(err) == err

listPolicies_ListPolicies ==
    /\ pc = "list" /\ table \in {"okta_password_policy", "okta_mfa_policy"}
    /\ \E o \in FetchOutcomes(1) :
        /\ calls' = Append(calls, Call("ListPolicies", NoId, 1,
                                       listPolicies_policyType(table), 0, o.err))
        /\ IF o.err # NoErr
           THEN /\ ListReturn(listPolicies_pageError(o.err))
                /\ UNCHANGED <<page, idx, hasNext, pageNo>>
           ELSE /\ page' = PolicyPage(ds, 1)
                /\ idx' = 1
                /\ hasNext' = o.next
                /\ pageNo' = 1
                /\ pc' = "loop"
                /\ UNCHANGED result
    /\ UNCHANGED <<query, budget, pidx, item, key, q, maxLimit, hydv, rows>>

listPolicies_Item ==
    /\ pc = "loop" /\ table \in {"okta_password_policy", "okta_mfa_policy"}
    /\ idx <= Len(page)
    /\ idx' = idx + 1
    /\ LET policyStruct == convertPolicyRespToStruct(page[idx])
       IN IF policyStruct # NoRow
          THEN StreamListItem(policyStruct)
          ELSE UNCHANGED <<budget, pc, cur, after, hdone, rows, result>>
    /\ UNCHANGED <<query, pidx, item, key, q, maxLimit, page, hasNext, pageNo,
                   hkey, hacc, hHasNext, hPageNo, calls>>

\* a paging loop that neither requests the next page nor returns
listPolicies_Paging_NoExit ==
    /\ pc = "loop" /\ table \in {"okta_password_policy", "okta_mfa_policy"}
    /\ idx > Len(page)
    /\ UNCHANGED vars

listPolicies_Paging ==
    /\ pc = "loop" /\ table \in {"okta_password_policy", "okta_mfa_policy"}
    /\ idx > Len(page)
    /\ IF hasNext
       THEN \E o \in FetchOutcomes(pageNo + 1) :
            /\ calls' = Append(calls, Call("ListPolicies", NoId, pageNo + 1,
                                           listPolicies_policyType(table), 0, o.err))
            /\ IF o.err # NoErr
               THEN /\ ListReturn(listPolicies_pageError(o.err))
                    /\ UNCHANGED <<page, idx, hasNext, pageNo>>
               ELSE /\ page' = PolicyPage(ds, pageNo + 1)
                    /\ idx' = 1
                    /\ hasNext' = o.next
                    /\ pageNo' = pageNo + 1
                    /\ UNCHANGED <<pc, result>>
       ELSE /\ ListReturn(NoErr)
            /\ UNCHANGED <<page, idx, hasNext, pageNo, calls>>
    /\ UNCHANGED <<query, budget, pidx, item, key, q, maxLimit, hydv, rows>>

\* ------------------------------------------------ listOktaSignonPolicies
\* lines 56-59 and 78-81: the error of a page
listOktaSignonPolicies_pageError(err) == err

listOktaSignonPolicies_ListPolicies ==
    /\ pc = "list" /\ table = "okta_signon_policy"
    /\ \E o \in FetchOutcomes(1) :
        /\ calls' = Append(calls, Call("ListPolicies", NoId, 1, <<"OKTA_SIGN_ON">>, 0, o.err))
        /\ IF o.err # NoErr
           THEN /\ ListReturn(listOktaSignonPolicies_pageError(o.err))
                /\ UNCHANGED <<page, idx, hasNext, pageNo>>
           ELSE /\ page' = PolicyPage(ds, 1)
                /\ idx' = 1
                /\ hasNext' = o.next
                /\ pageNo' = 1
                /\ pc' = "loop"
                /\ UNCHANGED result
    /\ UNCHANGED <<query, budget, pidx, item, key, q, maxLimit, hydv, rows>>

listOktaSignonPolicies_Item ==
    /\ pc = "loop" /\ table = "okta_signon_policy"
    /\ idx <= Len(page)
    /\ idx' = idx + 1
    /\ LET policyResp == page[idx]
       IN IF policyResp.type # NilInstance
          THEN StreamListItem([kind |-> "ListPolicies200Response",
                               Id |-> policyResp.id, Type |-> policyResp.type])
          ELSE UNCHANGED <<budget, pc, cur, after, hdone, rows, result>>
    /\ UNCHANGED <<query, pidx, item, key, q, maxLimit, page, hasNext, pageNo,
                   hkey, hacc, hHasNext, hPageNo, calls>>

listOktaSignonPolicies_Paging ==
    /\ pc = "loop" /\ table = "okta_signon_policy"
    /\ idx > Len(page)
    /\ IF hasNext
       THEN \E o \in FetchOutcomes(pageNo + 1) :
            /\ calls' = Append(calls, Call("ListPolicies", NoId, pageNo + 1,
                                           <<"OKTA_SIGN_ON">>, 0, o.err))
            /\ IF o.err # NoErr
               THEN /\ ListReturn(listOktaSignonPolicies_pageError(o.err))
                    /\ UNCHANGED <<page, idx, hasNext, pageNo>>
               ELSE /\ page' = PolicyPage(ds, pageNo + 1)
                    /\ idx' = 1
                    /\ hasNext' = o.next
                    /\ pageNo' = pageNo + 1
                    /\ UNCHANGED <<pc, result>>
       ELSE /\ ListReturn(NoErr)
            /\ UNCHANGED <<page, idx, hasNext, pageNo, calls>>
    /\ UNCHANGED <<query, budget, pidx, item, key, q, maxLimit, hydv, rows>>

\* ------------------------------------------------- enrichment (hydrate)
\* The hydrate functions of the row in cur run one after the other; when none is
\* left the row goes to the caller and the list function resumes.
HydrateDispatch ==
    /\ pc = "hydrate"
    /\ IF "getOktaPolicyRules" \in Required \ hdone
       THEN pc' = "rules" /\ UNCHANGED <<rows, result, cur>>
       ELSE IF "getOktaPolicyAssociatedResources" \in Required \ hdone
            THEN pc' = "mappings" /\ UNCHANGED <<rows, result, cur>>
            ELSE /\ rows' = Append(rows, cur)
                 /\ cur' = NoRow
                 /\ IF after = "return" THEN ListReturn(NoErr)
                    ELSE pc' = "loop" /\ UNCHANGED result
    /\ UNCHANGED <<query, budget, listv, after, hdone, hkey, hacc, hHasNext,
                   hPageNo, calls>>

\* A hydrate function returned (value, err): an error aborts the query (no
\* ignore configuration is declared for the hydrate functions of these tables).
HydrateReturn(fn, val, err) ==
    IF err # NoErr
    THEN /\ pc' = "done"
         /\ result' = Finished(err, NoRow)
         /\ UNCHANGED <<cur, hdone>>
    ELSE /\ pc' = "hydrate"
         /\ hdone' = hdone \cup {fn}
         /\ cur' = IF fn = "getOktaPolicyRules"
                   THEN [cur EXCEPT !.rules = val]
                   ELSE [cur EXCEPT !.resource_mapping = val]
         /\ UNCHANGED result

\* --------------------------------------------------- getOktaPolicyRules
\* lines 102-127: the policy id out of the row
getOktaPolicyRules_policyId(it) ==
    CASE it.kind = "*PolicyStructure" -> it.Id
      [] it.kind \in {"*Policy", "*AuthorizationServerPolicy"} -> it.Id
      [] it.kind = "ListPolicies200Response" ->
            IF it.Type \in {"*AccessPolicy", "*IdpDiscoveryPolicy",
                            "*AuthenticatorEnrollmentPolicy", "*OktaSignOnPolicy",
                            "*PasswordPolicy"}
            THEN it.Id
            ELSE NoId
      [] OTHER -> NoId

\* lines 143-146 and 154-157: the error of a page of rules
getOktaPolicyRules_pageError(err) == err

\* lines 161-173: structToMap of every rule, in order
getOktaPolicyRules_allRules(rules) ==
    [i \in 1..Len(rules) |-> [id |-> rules[i].id]]

\* a continuation page of rules whose failure hands back the rules of the pages
\* read before it
getOktaPolicyRules_Paging_Partial ==
    /\ pc = "rules_paging"
    /\ IF hHasNext
       THEN \E o \in FetchOutcomes(hPageNo + 1) :
            /\ calls' = Append(calls, Call("ListPolicyRules", hkey, hPageNo + 1, NoId, 0, o.err))
            /\ IF o.err # NoErr
               THEN /\ HydrateReturn("getOktaPolicyRules",
                                     Value(getOktaPolicyRules_allRules(hacc)), NoErr)
                    /\ UNCHANGED <<hacc, hHasNext, hPageNo>>
               ELSE /\ hacc' = hacc \o RulePage(ds, hkey, hPageNo + 1)
                    /\ hHasNext' = o.next
                    /\ hPageNo' = hPageNo + 1
                    /\ UNCHANGED <<pc, cur, hdone, result>>
       ELSE /\ HydrateReturn("getOktaPolicyRules",
                             Value(getOktaPolicyRules_allRules(hacc)), NoErr)
            /\ UNCHANGED <<hacc, hHasNext, hPageNo, calls>>
    /\ UNCHANGED <<query, budget, listv, after, hkey, rows>>

getOktaPolicyRules_Entry ==
    /\ pc = "rules"
    /\ LET policyId == getOktaPolicyRules_policyId(cur.item)
       IN IF policyId = NoId
          THEN HydrateReturn("getOktaPolicyRules", NilValue, NoErr)
               /\ UNCHANGED hkey
          ELSE pc' = "rules_first" /\ hkey' = policyId
               /\ UNCHANGED <<cur, hdone, result>>
    /\ UNCHANGED <<query, budget, listv, after, hacc, hHasNext, hPageNo, rows, calls>>

getOktaPolicyRules_ListPolicyRules ==
    /\ pc = "rules_first"
    /\ \E o \in FetchOutcomes(1) :
        /\ calls' = Append(calls, Call("ListPolicyRules", hkey, 1, NoId, 0, o.err))
        /\ IF o.err # NoErr
           THEN /\ HydrateReturn("getOktaPolicyRules", NilValue,
                                 getOktaPolicyRules_pageError(o.err))
                /\ UNCHANGED <<hacc, hHasNext, hPageNo>>
           ELSE /\ hacc' = RulePage(ds, hkey, 1)
                /\ hHasNext' = o.next
                /\ hPageNo' = 1
                /\ pc' = "rules_paging"
                /\ UNCHANGED <<cur, hdone, result>>
    /\ UNCHANGED <<query, budget, listv, after, hkey, rows>>

getOktaPolicyRules_Paging ==
    /\ pc = "rules_paging"
    /\ IF hHasNext
       THEN \E o \in FetchOutcomes(hPageNo + 1) :
            /\ calls' = Append(calls, Call("ListPolicyRules", hkey, hPageNo + 1, NoId, 0, o.err))
            /\ IF o.err # NoErr
               THEN /\ HydrateReturn("getOktaPolicyRules", NilValue,
                                     getOktaPolicyRules_pageError(o.err))
                    /\ UNCHANGED <<hacc, hHasNext, hPageNo>>
               ELSE /\ hacc' = hacc \o RulePage(ds, hkey, hPageNo + 1)
                    /\ hHasNext' = o.next
                    /\ hPageNo' = hPageNo + 1
                    /\ UNCHANGED <<pc, cur, hdone, result>>
       ELSE /\ HydrateReturn("getOktaPolicyRules",
                             Value(getOktaPolicyRules_allRules(hacc)), NoErr)
            /\ UNCHANGED <<hacc, hHasNext, hPageNo, calls>>
    /\ UNCHANGED <<query, budget, listv, after, hkey, rows>>

\* ------------------------------------- getOktaPolicyAssociatedResources
\* lines 181-190: the policy id out of the row
getOktaPolicyAssociatedResources_policyId(it) ==
    CASE it.kind = "*PolicyStructure" -> it.Id
      [] it.kind \in {"*Policy", "*AuthorizationServerPolicy"} -> it.Id
      [] OTHER -> NoId

\* lines 206-212: the error of the first page of mappings
getOktaPolicyAssociatedResources_firstError(err) ==
    IF \/ Contains(ToLower(err.msg), <<"not", "found">>)
       \/ Contains(err.msg, <<"404">>)
    THEN NoErr
    ELSE err

\* lines 220-223: the error of a continuation page of mappings
getOktaPolicyAssociatedResources_nextError(err) == err

getOktaPolicyAssociatedResources_Entry ==
    /\ pc = "mappings"
    /\ LET policyId == getOktaPolicyAssociatedResources_policyId(cur.item)
       IN IF policyId = NoId
          THEN HydrateReturn("getOktaPolicyAssociatedResources", NilValue, NoErr)
               /\ UNCHANGED hkey
          ELSE pc' = "mappings_first" /\ hkey' = policyId
               /\ UNCHANGED <<cur, hdone, result>>
    /\ UNCHANGED <<query, budget, listv, after, hacc, hHasNext, hPageNo, rows, calls>>

getOktaPolicyAssociatedResources_ListPolicyMappings ==
    /\ pc = "mappings_first"
    /\ \E o \in FetchOutcomes(1) :
        /\ calls' = Append(calls, Call("ListPolicyMappings", hkey, 1, NoId, 0, o.err))
        /\ IF o.err # NoErr
           THEN /\ HydrateReturn("getOktaPolicyAssociatedResources", NilValue,
                                 getOktaPolicyAssociatedResources_firstError(o.err))
                /\ UNCHANGED <<hacc, hHasNext, hPageNo>>
           ELSE /\ hacc' = MappingPage(ds, hkey, 1)
                /\ hHasNext' = o.next
                /\ hPageNo' = 1
                /\ pc' = "mappings_paging"
                /\ UNCHANGED <<cur, hdone, result>>
    /\ UNCHANGED <<query, budget, listv, after, hkey, rows>>

getOktaPolicyAssociatedResources_Paging ==
    /\ pc = "mappings_paging"
    /\ IF hHasNext
       THEN \E o \in FetchOutcomes(hPageNo + 1) :
            /\ calls' = Append(calls, Call("ListPolicyMappings", hkey, hPageNo + 1,
                                           NoId, 0, o.err))
            /\ IF o.err # NoErr
               THEN /\ HydrateReturn("getOktaPolicyAssociatedResources", NilValue,
                                     getOktaPolicyAssociatedResources_nextError(o.err))
                    /\ UNCHANGED <<hacc, hHasNext, hPageNo>>
               ELSE /\ hacc' = hacc \o MappingPage(ds, hkey, hPageNo + 1)
                    /\ hHasNext' = o.next
                    /\ hPageNo' = hPageNo + 1
                    /\ UNCHANGED <<pc, cur, hdone, result>>
       ELSE /\ HydrateReturn("getOktaPolicyAssociatedResources", Value(hacc), NoErr)
            /\ UNCHANGED <<hacc, hHasNext, hPageNo, calls>>
    /\ UNCHANGED <<query, budget, listv, after, hkey, rows>>

\* -------------------------------------------------------- Get operations
\* a GetConfig that declares no ShouldIgnoreError
tableOktaFactor_ShouldIgnoreError_Unset(err) == FALSE

\* part_001 line 25
tableOktaFactor_ShouldIgnoreError(err) ==
    isNotFoundError({<<"Not", "found">>, <<"Invalid", "Factor">>}, err)

\* table_okta_app_assigned_user.go line 22
tableOktaApplicationAssignedUser_ShouldIgnoreError(err) ==
    isNotFoundError({<<"Not", "found">>}, err)

ShouldIgnoreError(t, err) ==
    IF t = "okta_factor"
    THEN tableOktaFactor_ShouldIgnoreError(err)
    ELSE tableOktaApplicationAssignedUser_ShouldIgnoreError(err)

\* The Get hydrate returned (row, err): an error the table's ShouldIgnoreError
\* accepts is dropped and the Get yields no row.
GetReturn(row, err) ==
    /\ pc' = "done"
    /\ result' = IF err # NoErr /\ ShouldIgnoreError(table, err)
                 THEN Finished(NoErr, NoRow)
                 ELSE Finished(err, row)

\* the answer of the remote API to a single-item request
GetOutcomes(mayBeNil) ==
    { [err |-> e, found |-> FALSE] : e \in Errors }
    \cup { [err |-> NoErr, found |-> b] : b \in (IF mayBeNil THEN BOOLEAN ELSE {TRUE}) }

\* lines 179-185: the error of the user lookup
getOktaFactor_userError(err) ==
    IF Contains(err.msg, <<"Not", "found">>) THEN NoErr ELSE err

\* the Get with an empty check on user_id alone: an empty id does not stop it
getOktaFactor_Entry_NoCheck ==
    /\ pc = "get" /\ table = "okta_factor"
    /\ LET userId == EqualsQualString(quals.user_id)
       IN IF userId = NoId
          THEN GetReturn(NoRow, NoErr) /\ UNCHANGED key
          ELSE pc' = "get_user" /\ key' = userId /\ UNCHANGED result
    /\ UNCHANGED <<query, budget, pidx, item, q, maxLimit, page, idx, hasNext,
                   pageNo, hydv, rows, calls>>

\* lines 162-175: the empty check on user_id and id
getOktaFactor_Entry ==
    /\ pc = "get" /\ table = "okta_factor"
    /\ LET userId == EqualsQualString(quals.user_id)
           factorId == EqualsQualString(quals.id)
       IN IF userId = NoId \/ factorId = NoId
          THEN GetReturn(NoRow, NoErr) /\ UNCHANGED key
          ELSE pc' = "get_user" /\ key' = userId /\ UNCHANGED result
    /\ UNCHANGED <<query, budget, pidx, item, q, maxLimit, page, idx, hasNext,
                   pageNo, hydv, rows, calls>>

\* a user lookup whose failure does not stop the Get
getOktaFactor_GetUser_Continue ==
    /\ pc = "get_user" /\ table = "okta_factor"
    /\ \E o \in GetOutcomes(FALSE) :
        /\ calls' = Append(calls, Call("GetUser", key, 0, NoId, 0, o.err))
        /\ pc' = "get_item" /\ item' = UserItem(key[1]) /\ UNCHANGED result
    /\ UNCHANGED <<query, budget, pidx, key, q, maxLimit, page, idx, hasNext,
                   pageNo, hydv, rows>>

\* lines 177-188: the user lookup
getOktaFactor_GetUser ==
    /\ pc = "get_user" /\ table = "okta_factor"
    /\ \E o \in GetOutcomes(FALSE) :
        /\ calls' = Append(calls, Call("GetUser", key, 0, NoId, 0, o.err))
        /\ IF o.err # NoErr
           THEN GetReturn(NoRow, getOktaFactor_userError(o.err)) /\ UNCHANGED item
           ELSE pc' = "get_item" /\ item' = UserItem(key[1]) /\ UNCHANGED result
    /\ UNCHANGED <<query, budget, pidx, key, q, maxLimit, page, idx, hasNext,
                   pageNo, hydv, rows>>

\* lines 190-205: the factor lookup
getOktaFactor_GetFactor ==
    /\ pc = "get_item" /\ table = "okta_factor"
    /\ \E o \in GetOutcomes(TRUE) :
        /\ calls' = Append(calls, Call("GetFactor", key, 0, EqualsQualString(quals.id), 0, o.err))
        /\ IF o.err # NoErr
           THEN GetReturn(NoRow, o.err)
           ELSE IF ~o.found
                THEN GetReturn(NoRow, NoErr)
                ELSE GetReturn([kind |-> "UserFactorInfo", UserId |-> key,
                                UserName |-> item.login,
                                Factor |-> [Id |-> EqualsQualString(quals.id),
                                            FactorType |-> "UserFactor",
                                            Profile |-> "profile"],
                                page |-> 0], NoErr)
    /\ UNCHANGED <<query, budget, listv, hydv, rows>>

getApplicationAssignedUser_Entry ==
    /\ pc = "get" /\ table = "okta_app_assigned_user"
    /\ LET appId == EqualsQualString(quals.app_id)
           userId == EqualsQualString(quals.id)
       IN IF appId = NoId \/ userId = NoId
          THEN GetReturn(NoRow, NoErr) /\ UNCHANGED key
          ELSE pc' = "get_item" /\ key' = appId /\ UNCHANGED result
    /\ UNCHANGED <<query, budget, pidx, item, q, maxLimit, page, idx, hasNext,
                   pageNo, hydv, rows, calls>>

getApplicationAssignedUser_GetApplicationUser ==
    /\ pc = "get_item" /\ table = "okta_app_assigned_user"
    /\ \E o \in GetOutcomes(FALSE) :
        /\ calls' = Append(calls, Call("GetApplicationUser", key, 0,
                                       EqualsQualString(quals.id), 0, o.err))
        /\ IF o.err # NoErr
           THEN GetReturn(NoRow, o.err)
           ELSE GetReturn([kind |-> "AppUserInfo", AppId |-> key,
                           Id |-> EqualsQualString(quals.id), page |-> 0], NoErr)
    /\ UNCHANGED <<query, budget, listv, hydv, rows>>

\* ---------------------------------------- the row sink shared by callers
\* Several invocations of a list function (one per parent row) stream into
\* the one sink of the query: each is at its d.StreamListItem call or at the
\* d.RowsRemaining check that follows it (part_001 lines 118-127), with some
\* items of its page left.
Callers == 1..MaxCallers

BudgetInit ==
    /\ table = "okta_factor" /\ op = "list"
    /\ limit \in Limits
    /\ quals = NoQuals /\ columns = {"id", "name"} /\ ds = 0
    /\ parents = [k \in Callers |-> UserItem(k)]
    /\ run = 1 /\ prev = [rows |-> << >>, calls |-> << >>]
    /\ budget = limit
    /\ pc \in [Callers -> {[at |-> "stream", left |-> n] : n \in 1..MaxPageLen}]
    /\ pidx = 0 /\ item = NoRow /\ key = NoId /\ q = NoId /\ maxLimit = 0
    /\ page = << >> /\ idx = 1 /\ hasNext = FALSE /\ pageNo = 0
    /\ cur = NoRow /\ after = "next" /\ hdone = {} /\ hkey = NoId
    /\ hacc = << >> /\ hHasNext = FALSE /\ hPageNo = 0
    /\ rows = << >> /\ calls = << >> /\ result = Running

\* caller w streams its next item: one atomic tryConsume on the shared budget
\* (the call is logged with its outcome; the row handed over is not kept)
RowBudget_tryConsume(w) ==
    /\ pc[w].at = "stream"
    /\ calls' = Append(calls, [api |-> "tryConsume", before |-> budget,
                               ok |-> Accepts])
    /\ budget' = IF Accepts THEN Consumed ELSE budget
    /\ pc' = [pc EXCEPT ![w] = [at |-> "check", left |-> pc[w].left - 1]]
    /\ UNCHANGED <<query, listv, hydv, rows, result>>

\* caller w reads d.RowsRemaining: it returns at 0 or when its page is done
RowBudget_check(w) ==
    /\ pc[w].at = "check"
    /\ pc' = [pc EXCEPT ![w] =
                 [at |-> IF RowsRemaining = 0 \/ pc[w].left = 0
                         THEN "returned" ELSE "stream",
                  left |-> pc[w].left]]
    /\ UNCHANGED <<query, budget, listv, hydv, rows, calls, result>>

BudgetNext ==
    \/ \E w \in Callers : RowBudget_tryConsume(w)
    \/ \E w \in Callers : RowBudget_check(w)

SpecBudget == BudgetInit /\ [][BudgetNext]_vars

Next ==
    \/ ParentIteration
    \/ listOktaFactors_Entry
    \/ listOktaFactors_ListFactors
    \/ listOktaFactors_Item
    \/ listOktaFactors_Paging
    \/ listApplicationAssignedUsers_Entry
    \/ listApplicationAssignedUsers_ListApplicationUsers
    \/ listApplicationAssignedUsers_Item
    \/ listApplicationAssignedUsers_Paging
    \/ listPolicies_ListPolicies
    \/ listPolicies_Item
    \/ listPolicies_Paging
    \/ listOktaSignonPolicies_ListPolicies
    \/ listOktaSignonPolicies_Item
    \/ listOktaSignonPolicies_Paging
    \/ HydrateDispatch
    \/ getOktaPolicyRules_Entry
    \/ getOktaPolicyRules_ListPolicyRules
    \/ getOktaPolicyRules_Paging
    \/ getOktaPolicyAssociatedResources_Entry
    \/ getOktaPolicyAssociatedResources_ListPolicyMappings
    \/ getOktaPolicyAssociatedResources_Paging
    \/ getOktaFactor_Entry
    \/ getOktaFactor_GetUser
    \/ getOktaFactor_GetFactor
    \/ getApplicationAssignedUser_Entry
    \/ getApplicationAssignedUser_GetApplicationUser

Spec == Init /\ [][Next]_vars

\* ----------------------------------------------- the same query run twice
\* A finished unfiltered list without row limit, none of whose requests failed,
\* is run a second time against the unchanged organisation.
Rerun ==
    /\ pc = "done" /\ run = 1
    /\ op = "list" /\ limit = Unlimited /\ quals = NoQuals
    /\ result.err = NoErr
    /\ \A i \in DOMAIN calls : calls[i].err = NoErr
    /\ run' = 2
    /\ prev' = [rows |-> rows, calls |-> calls]
    /\ pc' = (IF HasParent(table) THEN "parent" ELSE "list")
    /\ pidx' = 0 /\ item' = NoRow /\ key' = NoId /\ q' = NoId /\ maxLimit' = 0
    /\ page' = << >> /\ idx' = 1 /\ hasNext' = FALSE /\ pageNo' = 0
    /\ cur' = NoRow /\ after' = "next" /\ hdone' = {} /\ hkey' = NoId
    /\ hacc' = << >> /\ hHasNext' = FALSE /\ hPageNo' = 0
    /\ rows' = << >> /\ calls' = << >> /\ result' = Running
    /\ UNCHANGED <<table, op, limit, quals, columns, ds, parents, budget>>

NextTwice ==
    \/ Next
    \/ Rerun

SpecTwice == Init /\ [][NextTwice]_vars

\* The query runs on one goroutine and every remote request returns: a step
\* that is possible is eventually taken.
FairSpec == Spec /\ WF_vars(Next)

\* ================================================================ claims
ListApis == {"ListFactors", "ListApplicationUsers", "ListPolicies"}
EnrichApis == {"ListPolicyRules", "ListPolicyMappings"}
GetApis == {"GetUser", "GetFactor", "GetApplicationUser"}

\* the rows handed to the sink so far: those delivered and the one being enriched
Streamed == Len(rows) + (IF cur # NoRow THEN 1 ELSE 0)

CallsOf(api) == { i \in DOMAIN calls : calls[i].api = api }

\* C1: with a row limit N >= 0 a list query never streams more than N rows, over
\* all pages and all parent rows.
C1_AtMostLimitRows ==
    (op = "list" /\ limit # Unlimited) => Streamed <= limit

\* C1 witness: a factor query stopped by its limit with rows of two different
\* parents streamed and parents left over.
C1_Witness ==
    /\ table = "okta_factor" /\ op = "list" /\ pc = "done"
    /\ limit = MaxLimit /\ Len(rows) = limit
    /\ rows[1].item.UserId # rows[Len(rows)].item.UserId
    /\ pidx < Len(parents)

\* C2: once the row budget is zero no page request of a list starts, neither a
\* continuation page nor the first page for a later parent row; every list page
\* request was issued with rows remaining.
C2_NoFetchOnceExhausted ==
    \A i \in DOMAIN calls : calls[i].api \in ListApis => calls[i].rem # 0

\* C3: with user_id = v, ListFactors is requested only for the parent whose id
\* is v, every row belongs to v, and a finished query with a non-zero limit has
\* requested the first page of v exactly once.
C3_FanOutPruning ==
    (table = "okta_factor" /\ op = "list" /\ EqualsQualString(quals.user_id) # NoId) =>
        /\ \A i \in CallsOf("ListFactors") : calls[i].key = EqualsQualString(quals.user_id)
        /\ \A j \in DOMAIN rows : rows[j].item.UserId = EqualsQualString(quals.user_id)
        /\ (pc = "done" /\ limit # 0) =>
              Cardinality({i \in CallsOf("ListFactors") : calls[i].cursor = 1}) = 1

\* C3 witness: parents 1, 2, 3 with user_id = 2: all parents were iterated, the
\* factors of 2 were fetched and rows of 2 streamed.
C3_Witness ==
    /\ table = "okta_factor" /\ op = "list" /\ pc = "done"
    /\ quals.user_id = Eq(<<2>>)
    /\ pidx = MaxParents
    /\ CallsOf("ListFactors") # {}
    /\ Len(rows) > 0

\* the conditions of a failure
NotFoundStatus(err) == err.status = 404
SaysNotFound(err) == Contains(err.msg, <<"Not", "found">>)
\* the error table of the table's family: Ignorable, otherwise Fatal
Ignorable(t, err) ==
    IF t = "okta_factor"
    THEN isNotFoundError({<<"Not", "found">>, <<"Invalid", "Factor">>}, err)
    ELSE isNotFoundError({<<"Not", "found">>}, err)
Fatal(t, err) == err # NoErr /\ ~Ignorable(t, err)

\* the page a streamed row came from
RowPage(it) == IF it.kind \in {"UserFactorInfo", "AppUserInfo"} THEN it.page ELSE it.Id[1]
RowKey(it) ==
    CASE it.kind = "UserFactorInfo" -> it.UserId
      [] it.kind = "AppUserInfo" -> it.AppId
      [] OTHER -> NoId

\* C4: a Get whose remote call (user lookup or item lookup) fails with a
\* not-found condition (the not-found status, or a message saying "Not found")
\* ends with no row and no error.
C4_GetNotFoundYieldsNothing ==
    (op = "get" /\ pc = "done" /\ calls # << >>
       /\ (NotFoundStatus(calls[Len(calls)].err) \/ SaysNotFound(calls[Len(calls)].err))) =>
        result = Finished(NoErr, NoRow)

\* C4 witness: the item lookup GetFactor, issued after a successful user lookup,
\* failed with "Not found" and the Get is over.
C4_Witness ==
    /\ op = "get" /\ pc = "done" /\ Len(calls) = 2
    /\ calls[1].api = "GetUser" /\ calls[1].err = NoErr
    /\ calls[2].api = "GetFactor"
    /\ SaysNotFound(calls[2].err)

\* C5: every policy item of a declared variant tag resolves to a non-empty
\* identity equal to its id: in convertPolicyRespToStruct and in the id
\* extraction of both enrichment functions.
C5_UnionResolutionComplete ==
    /\ (pc = "loop" /\ table \in {"okta_password_policy", "okta_mfa_policy"}
          /\ idx <= Len(page) /\ page[idx].type \in PolicyTypes) =>
            /\ convertPolicyRespToStruct(page[idx]) # NoRow
            /\ convertPolicyRespToStruct(page[idx]).Id = page[idx].id
            /\ page[idx].id # NoId
    /\ (pc = "rules" /\ cur.item.Type \in PolicyTypes) =>
            /\ getOktaPolicyRules_policyId(cur.item) = cur.item.Id
            /\ cur.item.Id # NoId
    /\ (pc = "mappings" /\ cur.item.Type \in PolicyTypes) =>
            /\ getOktaPolicyAssociatedResources_policyId(cur.item) = cur.item.Id
            /\ cur.item.Id # NoId

\* C6: an item whose discriminant is outside the declared variants produces no
\* row: no streamed row carries the unknown-variant sentinel or an undeclared
\* policy type.
C6_UnknownVariantNotEmitted ==
    \A j \in DOMAIN rows :
        /\ rows[j].item.kind = "UserFactorInfo" => rows[j].item.Factor # EmptyOktaFactor
        /\ rows[j].item.kind \in {"*PolicyStructure", "ListPolicies200Response"} =>
              rows[j].item.Type \in PolicyTypes

\* C7: a Fatal error on a page of a list (first or continuation) is the last
\* request of the query, the query returns that error, and no row of the
\* failing page was streamed.
C7_FatalPageErrorReturned ==
    \A i \in DOMAIN calls :
        (calls[i].api \in ListApis /\ Fatal(table, calls[i].err)) =>
            /\ i = Len(calls)
            /\ pc = "done"
            /\ result = Finished(calls[i].err, NoRow)
            /\ \A j \in DOMAIN rows :
                  ~(RowKey(rows[j].item) = calls[i].key
                      /\ RowPage(rows[j].item) = calls[i].cursor)

\* C7 witness: a continuation page failed with a Fatal error after rows of the
\* first page were streamed.
C7_Witness ==
    /\ op = "list" /\ pc = "done" /\ calls # << >>
    /\ calls[Len(calls)].api \in ListApis
    /\ calls[Len(calls)].cursor > 1
    /\ Fatal(table, calls[Len(calls)].err)
    /\ Len(rows) > 0

\* C8: a not-found failure of ListFactors, on the first page or on a
\* continuation page, ends the sequence without error: the factor list never
\* returns an error saying "Not found".
C8_NotFoundPageIsNoError ==
    (table = "okta_factor" /\ op = "list" /\ result.done) => ~SaysNotFound(result.err)

\* C9: a not-found failure of a remote call of an enrichment function
\* (ListPolicyRules, ListPolicyMappings, any page) does not abort the query.
C9_EnrichmentNotFoundIgnored ==
    (calls # << >> /\ calls[Len(calls)].api \in EnrichApis
       /\ SaysNotFound(calls[Len(calls)].err)) =>
        result.err = NoErr

\* C10: a column that is not requested never has its hydrate function invoked:
\* without rules no ListPolicyRules request, without resource_mapping no
\* ListPolicyMappings request.
C10_ColumnPruning ==
    /\ "rules" \notin columns => CallsOf("ListPolicyRules") = {}
    /\ "resource_mapping" \notin columns => CallsOf("ListPolicyMappings") = {}
    /\ "rules" \notin columns => pc \notin {"rules", "rules_first", "rules_paging"}
    /\ "resource_mapping" \notin columns =>
          pc \notin {"mappings", "mappings_first", "mappings_paging"}

\* C10 witness: a policy query for {id, name} streamed two rows and finished
\* without error.
C10_Witness ==
    /\ table = "okta_password_policy" /\ columns = {"id", "name"}
    /\ pc = "done" /\ result.err = NoErr
    /\ Len(rows) = 2

\* the page requests of the list function, in the order they were issued
IsListCall(c) == c.api \in ListApis
ListCalls == SelectSeq(calls, IsListCall)
\* the number of items (non-nil instances) of the page a request returned
ItemsOf(c) ==
    CASE c.api = "ListFactors" ->
            Cardinality({i \in DOMAIN FactorPage(ds, c.key, c.cursor) :
                            FactorPage(ds, c.key, c.cursor)[i].type # NilInstance})
      [] c.api = "ListApplicationUsers" -> Len(AppUserPage(ds, c.key, c.cursor, c.q))
      [] OTHER ->
            Cardinality({i \in DOMAIN PolicyPage(ds, c.cursor) :
                            PolicyPage(ds, c.cursor)[i].type # NilInstance})
\* one <<key, cursor>> per item of every page requested, in request order
RECURSIVE ExpectedPages(_)
ExpectedPages(cs) ==
    IF cs = << >>
    THEN << >>
    ELSE [i \in 1..ItemsOf(cs[1]) |-> <<cs[1].key, cs[1].cursor>>]
         \o ExpectedPages(Tail(cs))
\* the position of a row's item in its page
RowPos(it) ==
    CASE it.kind = "UserFactorInfo" -> IF it.Factor.Id = NoId THEN 0 ELSE it.Factor.Id[3]
      [] it.kind = "AppUserInfo" -> it.Id[3]
      [] OTHER -> 1
\* a finished list without row limit whose requests all succeeded
CompleteList ==
    /\ op = "list" /\ pc = "done" /\ limit = Unlimited
    /\ table \in {"okta_factor", "okta_app_assigned_user", "okta_signon_policy"}
    /\ \A i \in DOMAIN calls : calls[i].err = NoErr

ClassifyingSite(c) ==
    \/ c.api \in GetApis
    \/ c.api = "ListFactors" /\ c.cursor = 1
    \/ c.api = "ListPolicyMappings" /\ c.cursor = 1

\* C12: every call site of a family classifies an error by the one table of the
\* family: a failed request at a Get, at the first page of listOktaFactors, at
\* the user lookup of getOktaFactor or in getOktaPolicyAssociatedResources is
\* dropped exactly when the error carries the not-found status or a declared
\* substring, and is returned otherwise.
C12_OneErrorTable ==
    (calls # << >> /\ calls[Len(calls)].err # NoErr
       /\ ClassifyingSite(calls[Len(calls)])) =>
        ((result.err = NoErr) <=> Ignorable(table, calls[Len(calls)].err))

\* the key qualifiers a Get requires
GetKeys(t) == IF t = "okta_factor" THEN {"user_id", "id"} ELSE {"app_id", "id"}
\* the parent rows handed to the list function so far that yield no key
KeylessParents ==
    { k \in 1..pidx :
        IF table = "okta_app_assigned_user"
        THEN parents[k].type \notin ApplicationTypes \/ parents[k].id \in {NilPtr, NoId}
        ELSE parents[k].id = NoId }

SearchColumns == {"user_name", "first_name", "email"}
\* a user satisfies a qualifier: absent, equal to its value, or in its list
SatisfiesQual(v, qual) ==
    \/ ~qual.present
    \/ qual.list = {} /\ v = qual.str
    \/ qual.list # {} /\ v \in qual.list
Satisfies(u, qs) == \A c \in SearchColumns : SatisfiesQual(u[c], qs[c])

\* C14: the q sent with ListApplicationUsers is empty or the value of an
\* exact-match, single-valued qualifier on user_name, first_name or email, never
\* a value of an IN list; and every user of the requested page that satisfies
\* all the qualifiers of the query is in the page the server returned.
C14_QualifierPushdown ==
    /\ \A i \in CallsOf("ListApplicationUsers") :
          /\ calls[i].q # NoId =>
                \E c \in SearchColumns :
                    quals[c].present /\ quals[c].list = {} /\ quals[c].str = calls[i].q
          /\ (\A c \in SearchColumns : ~quals[c].present \/ quals[c].list # {}) =>
                calls[i].q = NoId
    /\ (table = "okta_app_assigned_user" /\ op = "list" /\ pc = "loop") =>
          \A k \in DOMAIN AppUsers(ds, key, pageNo) :
              Satisfies(AppUsers(ds, key, pageNo)[k], quals) =>
                  \E j \in DOMAIN page : page[j] = AppUsers(ds, key, pageNo)[k]

\* C14 witness: a list with user_name = alice pushed down and email = a@b.c not
\* pushed down received a page that holds a user satisfying both and a user
\* that does not satisfy the email qualifier.
C14_Witness ==
    /\ table = "okta_app_assigned_user" /\ op = "list" /\ pc = "loop"
    /\ quals.user_name = Eq(<<"alice">>) /\ quals.email = Eq(<<"a@b.c">>)
    /\ q = <<"alice">>
    /\ \E j \in DOMAIN page : Satisfies(page[j], quals)
    /\ \E j \in DOMAIN page : ~Satisfies(page[j], quals)

\* C15: with app_id = v, ListApplicationUsers is requested for no parent
\* application whose id differs from v, and every row belongs to v.
C15_AppFanOutPruning ==
    (table = "okta_app_assigned_user" /\ op = "list"
       /\ EqualsQualString(quals.app_id) # NoId) =>
        /\ \A i \in CallsOf("ListApplicationUsers") :
              calls[i].key = EqualsQualString(quals.app_id)
        /\ \A j \in DOMAIN rows : rows[j].item.AppId = EqualsQualString(quals.app_id)
        /\ pc \in {"first", "loop"} => key = EqualsQualString(quals.app_id)

\* C15 witness: a finished list with app_id = 2 over an organisation that has
\* another application with assigned users requested the users of 2 and
\* emitted rows.
C15_Witness ==
    /\ table = "okta_app_assigned_user" /\ op = "list" /\ pc = "done"
    /\ quals.app_id = Eq(<<2>>)
    /\ listApplicationAssignedUsers_appId(AppItem(ds, 1)) # NoId
    /\ CallsOf("ListApplicationUsers") # {}
    /\ Len(rows) > 0

\* a request of the query failed with an error the family's table calls Fatal
FatalSeen == \E i \in DOMAIN calls : Fatal(table, calls[i].err)

\* C16: no request is issued twice in a query (same endpoint, key and cursor),
\* and a request that fails with a Fatal error is the last one: the query is
\* over with that error, and from then on no request is issued and no row is
\* emitted.
C16_NoRetryImmediateTermination ==
    /\ [](\A i, j \in DOMAIN calls :
            (calls[i].api = calls[j].api /\ calls[i].key = calls[j].key
               /\ calls[i].cursor = calls[j].cursor) => i = j)
    /\ [](\A i \in DOMAIN calls :
            Fatal(table, calls[i].err) =>
                /\ i = Len(calls)
                /\ pc = "done"
                /\ result = Finished(calls[i].err, NoRow))
    /\ [][FatalSeen => (calls' = calls /\ rows' = rows)]_vars
    /\ [][(~FatalSeen /\ FatalSeen') => rows' = rows]_vars

\* C16 witness: an enrichment request failed with a Fatal error after a row had
\* been emitted; the row being enriched was not emitted and the query is over.
C16_Witness ==
    /\ pc = "done" /\ calls # << >>
    /\ calls[Len(calls)].api \in EnrichApis
    /\ Fatal(table, calls[Len(calls)].err)
    /\ Len(rows) > 0 /\ cur # NoRow

\* C17: the row budget never increases; a tryConsume succeeds exactly when the
\* budget was > 0 before the call (always, without limit) and then leaves it
\* one lower, a failed one leaves it as it was; and after a failed tryConsume
\* every later one fails, whichever caller makes it.
C17_RowBudgetMonotonic ==
    /\ [][budget' <= budget]_vars
    /\ [](\A i \in DOMAIN calls :
            /\ calls[i].ok <=> (limit = Unlimited \/ calls[i].before > 0)
            /\ (IF i < Len(calls) THEN calls[i+1].before ELSE budget) =
                  (IF calls[i].ok /\ limit # Unlimited
                   THEN calls[i].before - 1 ELSE calls[i].before))
    /\ [](\A i, j \in DOMAIN calls : (i < j /\ ~calls[i].ok) => ~calls[j].ok)

\* C17 witness: after a successful tryConsume two more failed, necessarily of
\* two different callers (a caller returns after its first failure), and all
\* callers have returned.
C17_Witness ==
    /\ \E i, j, k \in DOMAIN calls :
          /\ i < j /\ j < k
          /\ calls[i].api = "tryConsume"
          /\ calls[i].ok /\ ~calls[j].ok /\ ~calls[k].ok
    /\ \A w \in DOMAIN pc : pc[w].at = "returned"

\* the parent rows and the cursor chain of the list are used up
SourcesExhausted ==
    /\ HasParent(table) => pidx = Len(parents)
    /\ ~hasNext

\* C18: with a finite parent sequence and finite cursor chains every query
\* eventually ends; a list that ends without error has used up its parent rows
\* and cursors or its row budget.
C18_Termination ==
    /\ <>(pc = "done" /\ result.done)
    /\ []((pc = "done" /\ op = "list" /\ result.err = NoErr) =>
            (SourcesExhausted \/ RowsRemaining = 0))

\* C18 witness: a list ended because its row budget was used up while a
\* further page and further parent rows were left.
C18_Witness ==
    /\ pc = "done" /\ op = "list" /\ result.err = NoErr
    /\ limit = MaxLimit /\ budget = 0 /\ Len(rows) = limit
    /\ hasNext /\ pidx < Len(parents)

\* the identity field of a row
RowId(it) ==
    CASE it.kind = "UserFactorInfo" -> <<it.UserId, it.Factor.Id>>
      [] it.kind = "AppUserInfo" -> <<it.AppId, it.Id>>
      [] OTHER -> it.Id

C20_JoinKeyConsistency ==
    /\ [][(op = "list" /\ HasParent(table) /\ Len(rows') = Len(rows) + 1) =>
            /\ RowKey(rows'[Len(rows')].item) = parents[pidx].id
            /\ RowPage(rows'[Len(rows')].item) = pageNo
            /\ calls[Len(calls)].key = parents[pidx].id
            /\ calls[Len(calls)].cursor = pageNo]_vars
    /\ [](\A j \in DOMAIN rows :
            /\ rows[j].item.kind = "AppUserInfo" =>
                  rows[j].item.AppId = << rows[j].item.Id[1] >>
            /\ (rows[j].item.kind = "UserFactorInfo" /\ rows[j].item.Factor.Id # NoId) =>
                  rows[j].item.UserId = << rows[j].item.Factor.Id[1] >>)

\* C20 witness: an assigned-user list emitted rows of two different
\* applications, one of them from a continuation page.
C20_Witness ==
    /\ table = "okta_app_assigned_user" /\ op = "list"
    /\ \E i, j \in DOMAIN rows : rows[i].item.AppId # rows[j].item.AppId
    /\ \E i \in DOMAIN rows : rows[i].item.page = 2

\* the rows of the policy list operations
IsPolicyRow(it) == it.kind \in {"*PolicyStructure", "ListPolicies200Response"}

\* C21: for the row of a policy list being enriched, both enrichment functions
\* extract the same id, the id of the row; a function that has started its
\* requests issues them for that id, and a function that has returned has
\* requested the first page for that id.
C21_EnrichmentIdAgreement ==
    (cur # NoRow /\ IsPolicyRow(cur.item)) =>
        /\ getOktaPolicyRules_policyId(cur.item) =
              getOktaPolicyAssociatedResources_policyId(cur.item)
        /\ getOktaPolicyRules_policyId(cur.item) = cur.item.Id
        /\ pc \in {"rules_first", "rules_paging", "mappings_first", "mappings_paging"} =>
              hkey = cur.item.Id
        /\ "getOktaPolicyRules" \in hdone =>
              \E i \in CallsOf("ListPolicyRules") :
                  calls[i].key = cur.item.Id /\ calls[i].cursor = 1
        /\ "getOktaPolicyAssociatedResources" \in hdone =>
              \E i \in CallsOf("ListPolicyMappings") :
                  calls[i].key = cur.item.Id /\ calls[i].cursor = 1

\* C22: in a Get of a factor the user lookup comes first and is made once; a
\* GetFactor request directly follows a GetUser request for the same user that
\* succeeded; a failed GetUser is the last request of the Get, which ends
\* without row; and a row is returned only after a GetFactor request.
C22_UserLookupPrecedesFactorLookup ==
    (op = "get" /\ table = "okta_factor") =>
        /\ Cardinality(CallsOf("GetUser")) <= 1
        /\ calls # << >> => calls[1].api = "GetUser"
        /\ \A i \in CallsOf("GetFactor") :
              /\ i > 1
              /\ calls[i-1].api = "GetUser"
              /\ calls[i-1].err = NoErr
              /\ calls[i-1].key = calls[i].key
        /\ \A i \in CallsOf("GetUser") :
              calls[i].err # NoErr =>
                  /\ i = Len(calls)
                  /\ pc = "done"
                  /\ result.done /\ result.row = NoRow
        /\ result.row # NoRow =>
              calls[Len(calls)].api = "GetFactor" /\ calls[Len(calls)].err = NoErr

\* C22 witness: a Get of a factor ended after a user lookup that failed with an
\* error other than not-found.
C22_Witness ==
    /\ op = "get" /\ table = "okta_factor" /\ pc = "done"
    /\ Len(calls) = 1 /\ calls[1].api = "GetUser"
    /\ calls[1].err.status = 500
    /\ result.err = calls[1].err

\* the user_id qualifier is a non-empty list of values without string value
UserIdIsList ==
    /\ quals.user_id.present
    /\ EqualsQualString(quals.user_id) = NoId
    /\ quals.user_id.list # {}

\* C23: when user_id is a non-empty list of values, ListFactors is requested
\* only for parent users whose id is in the list and every row belongs to such
\* a user; a list without row limit that ended without error after all parents
\* has requested the first page of every parent in the list.
C23_SetMembershipPruning ==
    (table = "okta_factor" /\ op = "list" /\ UserIdIsList) =>
        /\ \A i \in CallsOf("ListFactors") : calls[i].key \in quals.user_id.list
        /\ \A j \in DOMAIN rows : rows[j].item.UserId \in quals.user_id.list
        /\ pc \in {"first", "loop"} => key \in quals.user_id.list
        /\ (pc = "done" /\ limit = Unlimited /\ result.err = NoErr) =>
              \A k \in DOMAIN parents :
                  parents[k].id \in quals.user_id.list =>
                      \E i \in CallsOf("ListFactors") :
                          calls[i].key = parents[k].id /\ calls[i].cursor = 1

\* C23 witness: parents 1, 2, 3 with user_id in {1, 3}: all parents were
\* iterated, the factors of 1 and of 3 were requested and rows of both emitted.
C23_Witness ==
    /\ table = "okta_factor" /\ op = "list" /\ pc = "done" /\ UserIdIsList
    /\ pidx = Len(parents) /\ Len(parents) > Cardinality(quals.user_id.list)
    /\ \A v \in quals.user_id.list :
          /\ \E i \in CallsOf("ListFactors") : calls[i].key = v
          /\ \E j \in DOMAIN rows : rows[j].item.UserId = v

\* the ListPolicyRules requests made for policy p, in the order they were issued
RECURSIVE RuleCallsOf(_, _)
RuleCallsOf(cs, p) ==
    IF cs = << >>
    THEN << >>
    ELSE (IF cs[1].api = "ListPolicyRules" /\ cs[1].key = p THEN << cs[1] >> ELSE << >>)
         \o RuleCallsOf(Tail(cs), p)
\* the rules of pages 1..n of policy p, page after page, item after item
RECURSIVE RulesUpTo(_, _)
RulesUpTo(p, n) ==
    IF n = 0
    THEN << >>
    ELSE RulesUpTo(p, n - 1) \o [i \in 1..Len(RulePage(ds, p, n)) |->
                                   [id |-> RulePage(ds, p, n)[i].id]]
\* a row whose rules column holds a list
HasRules(r) == r # NoRow /\ IsPolicyRow(r.item) /\ r.rules.set /\ ~r.rules.nil

\* C24: a rules column that holds a list holds the rules of every page
\* requested for the row's policy, in page and item order, all those requests
\* having succeeded and been made in cursor order; and a failed ListPolicyRules
\* request leaves no rules behind: the query ends with that error and the row
\* being enriched has no rules.
C24_RulesAllOrNothing ==
    /\ \A r \in {rows[j] : j \in DOMAIN rows} \cup {cur} :
          HasRules(r) =>
              LET p == getOktaPolicyRules_policyId(r.item)
                  cs == RuleCallsOf(calls, p)
              IN /\ cs # << >>
                 /\ \A i \in DOMAIN cs : cs[i].cursor = i /\ cs[i].err = NoErr
                 /\ r.rules.items = RulesUpTo(p, Len(cs))
    /\ \A i \in CallsOf("ListPolicyRules") :
          calls[i].err # NoErr =>
              /\ i = Len(calls)
              /\ pc = "done"
              /\ result = Finished(calls[i].err, NoRow)
              /\ cur # NoRow /\ ~cur.rules.set

\* C24 witness: the second page of the rules of a policy failed after a first
\* page that held rules.
C24_Witness ==
    /\ pc = "done" /\ calls # << >>
    /\ calls[Len(calls)].api = "ListPolicyRules"
    /\ calls[Len(calls)].cursor = 2
    /\ calls[Len(calls)].err # NoErr
    /\ hacc # << >>

\* the search columns in the order of their priority
SearchPriority == << "user_name", "first_name", "email" >>
\* the positions of the search columns whose string value is not empty
NonEmptySearch ==
    { n \in DOMAIN SearchPriority : EqualsQualString(quals[SearchPriority[n]]) # NoId }

\* C25: every ListApplicationUsers request of a query carries as q the string
\* value of the first of user_name, first_name, email whose value is not empty,
\* and no q when none is; all requests of the query, for every parent
\* application and every page, carry the same q.
C25_SearchStringPriority ==
    /\ \A i \in CallsOf("ListApplicationUsers") :
          IF NonEmptySearch = {}
          THEN calls[i].q = NoId
          ELSE \E n \in NonEmptySearch :
                  /\ \A m \in NonEmptySearch : n <= m
                  /\ calls[i].q = EqualsQualString(quals[SearchPriority[n]])
    /\ \A i, j \in CallsOf("ListApplicationUsers") : calls[i].q = calls[j].q

\* C25 witness: user_name is a list, first_name and email have values: the
\* users of two different applications were requested with q = first_name.
C25_Witness ==
    /\ table = "okta_app_assigned_user" /\ op = "list"
    /\ quals.user_name.list # {}
    /\ quals.first_name = Eq(<<"carol">>) /\ quals.email = Eq(<<"a@b.c">>)
    /\ \E i, j \in CallsOf("ListApplicationUsers") :
          /\ calls[i].key # calls[j].key
          /\ calls[i].q = <<"carol">> /\ calls[j].q = <<"carol">>

====
